---------------------------- MODULE Spec2Model ----------------------------
(***************************************************************************)
(* Model of the two ETL scripts of federal-employment-analysis:             *)
(*   scripts/create_dashboard_data.py  (embedded mode,  script "dashboard") *)
(*   scripts/process_data.py           (tabular mode,   script "process")   *)
(*                                                                          *)
(* Money is held in cents, grades in hundredths, years of service in        *)
(* tenths, so that every number of the model is an integer.  A missing      *)
(* number (NaN) is the empty tuple and a present number v the tuple <<v>>.  *)
(* A raw text field (pay, grade) is a tuple of characters; a categorical    *)
(* field is a string; a null categorical value is NA.                       *)
(***************************************************************************)
EXTENDS Integers, Sequences, FiniteSets, TLC

\* ------------------------------------------------------------------ bounds
MaxRows == 2        \* rows of a general input file
MaxLen == 2         \* length of a generated raw pay string
MaxCountUnits == 2  \* a row's count is 0..MaxCountUnits times CountUnit
CountUnit == 10
MaxRuns == 2        \* runs of the script on the same input file

\* --------------------------------------------------------------- constants
HeadLimit == 50     \* agency_data.head(50)
Unranked == 99      \* rank of a category absent from band_order / age_order
ExitFailure == 1    \* sys.exit(1), and an uncaught exception's exit status

\* ----------------------------------------------------------- basic helpers
NA == "<NA>"
NaN == <<>>
Num(v) == <<v>>
IsNaN(x) == x = NaN
Val(x) == x[1]

Range(s) == {s[i] : i \in DOMAIN s}

RECURSIVE SumSeq(_)
SumSeq(s) == IF s = <<>> THEN 0 ELSE Head(s) + SumSeq(Tail(s))

RECURSIVE SelectSeqIdx(_, _)
\* the subsequence of s at the (ascending) positions of the set idx
SelectSeqIdx(s, idx) ==
  IF idx = {} THEN <<>>
  ELSE LET m == CHOOSE i \in idx : \A j \in idx : i <= j
       IN <<s[m]>> \o SelectSeqIdx(s, idx \ {m})

\* numpy's round-half-to-even of num/den to an integer (den > 0)
RoundHalfEven(num, den) ==
  LET q == num \div den
      r == num - q * den
  IN IF 2 * r < den THEN q
     ELSE IF 2 * r > den THEN q + 1
     ELSE IF q % 2 = 0 THEN q ELSE q + 1

\* Python's ordering of the strings that occur as category values
StrOrder ==
  << "$100K-$125K", "$100K-$150K", "$125K-$150K", "$150K-$200K", "$200K+",
     "$40K-$60K", "$50K-$75K", "$60K-$80K", "$75K-$100K", "$80K-$100K",
     "1-5 years", "10-20 years", "20-24", "20-30 years", "25-29", "30+ years",
     "5-10 years", "< $40K", "< 1 year", "AA", "ADMIN", "AGENCY A", "AGENCY B",
     "ALL OTHER OCCUPATIONS", "BACHELORS", "BB", "CLERK", "ENGINEERING",
     "GENERAL ENGINEERING", "HIGH SCHOOL", "LESS THAN 20", "MARYLAND", "MD",
     "NON-SUPERVISOR", "PERMANENT", "REDACTED", "Redacted", "STEM OCCUPATIONS",
     "SUPERVISOR", "TEMPORARY", "UNSPECIFIED", "Under $50K", "Unknown",
     "Unknown/Redacted", "VA", "VIRGINIA" >>

StrRank(s) == CHOOSE i \in DOMAIN StrOrder : StrOrder[i] = s

RECURSIVE KeyLess(_, _)
\* lexicographic order of two key tuples of the same length
KeyLess(a, b) ==
  IF a = <<>> THEN FALSE
  ELSE IF Head(a) = Head(b) THEN KeyLess(Tail(a), Tail(b))
  ELSE StrRank(Head(a)) < StrRank(Head(b))

\* ------------------------------------------------------ pd.to_numeric(...)
Digits == {"0", "1", "2", "3", "4", "5", "6", "7", "8", "9"}
DigitVal(c) ==
  CASE c = "0" -> 0 [] c = "1" -> 1 [] c = "2" -> 2 [] c = "3" -> 3
    [] c = "4" -> 4 [] c = "5" -> 5 [] c = "6" -> 6 [] c = "7" -> 7
    [] c = "8" -> 8 [] c = "9" -> 9

RECURSIVE DigitsValue(_)
DigitsValue(s) ==
  IF s = <<>> THEN 0
  ELSE 10 * DigitsValue(SubSeq(s, 1, Len(s) - 1)) + DigitVal(s[Len(s)])

\* the value, in hundredths, of an unsigned decimal literal with at most two
\* fractional digits; NaN when the text is no such literal
ParseUnsigned(s) ==
  LET dots == {i \in DOMAIN s : s[i] = "."}
      ok == /\ \A i \in DOMAIN s : s[i] \in Digits \cup {"."}
            /\ Cardinality(dots) <= 1
            /\ \E i \in DOMAIN s : s[i] \in Digits
      dot == IF dots = {} THEN Len(s) + 1 ELSE CHOOSE i \in dots : TRUE
      ip == SubSeq(s, 1, dot - 1)
      fp == SubSeq(s, dot + 1, Len(s))
      fp2 == IF Len(fp) = 0 THEN <<"0", "0">>
             ELSE IF Len(fp) = 1 THEN fp \o <<"0">> ELSE SubSeq(fp, 1, 2)
  IN IF ok THEN Num(100 * DigitsValue(ip) + DigitsValue(fp2)) ELSE NaN

\* pd.to_numeric(column, errors='coerce') on one cell of an object column
ToNumeric(s) ==
  IF s = <<NA>> \/ s = <<>> THEN NaN
  ELSE IF Head(s) = "-"
       THEN LET u == ParseUnsigned(Tail(s))
            IN IF IsNaN(u) THEN NaN ELSE Num(0 - Val(u))
  ELSE IF Head(s) = "+" THEN ParseUnsigned(Tail(s))
  ELSE ParseUnsigned(s)

REDACTED == <<"R", "E", "D", "A", "C", "T", "E", "D">>

\* a slip: the sentinel compared in the wrong case
IsRedactedLower(s) == s = <<"r", "e", "d", "a", "c", "t", "e", "d">>

\* df['annualized_adjusted_basic_pay'] == 'REDACTED' on one cell
IsRedacted(s) == s = REDACTED

\* ------------------------------------------------------------ bucketing
\* a slip: the first threshold compared with <= instead of <
pay_band_inclusive(pay) ==
  IF IsNaN(pay) THEN "Redacted"
  ELSE IF Val(pay) <= 5000000 THEN "Under $50K"
  ELSE IF Val(pay) < 7500000 THEN "$50K-$75K"
  ELSE IF Val(pay) < 10000000 THEN "$75K-$100K"
  ELSE IF Val(pay) < 12500000 THEN "$100K-$125K"
  ELSE IF Val(pay) < 15000000 THEN "$125K-$150K"
  ELSE IF Val(pay) < 20000000 THEN "$150K-$200K"
  ELSE "$200K+"

\* create_dashboard_data.py: pay_band
pay_band(pay) ==
  IF IsNaN(pay) THEN "Redacted"
  ELSE IF Val(pay) < 5000000 THEN "Under $50K"
  ELSE IF Val(pay) < 7500000 THEN "$50K-$75K"
  ELSE IF Val(pay) < 10000000 THEN "$75K-$100K"
  ELSE IF Val(pay) < 12500000 THEN "$100K-$125K"
  ELSE IF Val(pay) < 15000000 THEN "$125K-$150K"
  ELSE IF Val(pay) < 20000000 THEN "$150K-$200K"
  ELSE "$200K+"

\* a slip: no test for a missing value, so that NaN, which compares false
\* with every threshold, falls through to the last band
categorize_pay_unchecked(pay) ==
  IF IsNaN(pay) THEN "$200K+"
  ELSE IF Val(pay) < 4000000 THEN "< $40K"
  ELSE IF Val(pay) < 6000000 THEN "$40K-$60K"
  ELSE IF Val(pay) < 8000000 THEN "$60K-$80K"
  ELSE IF Val(pay) < 10000000 THEN "$80K-$100K"
  ELSE IF Val(pay) < 15000000 THEN "$100K-$150K"
  ELSE IF Val(pay) < 20000000 THEN "$150K-$200K"
  ELSE "$200K+"

\* process_data.py: categorize_pay
categorize_pay(pay) ==
  IF IsNaN(pay) THEN "Unknown/Redacted"
  ELSE IF Val(pay) < 4000000 THEN "< $40K"
  ELSE IF Val(pay) < 6000000 THEN "$40K-$60K"
  ELSE IF Val(pay) < 8000000 THEN "$60K-$80K"
  ELSE IF Val(pay) < 10000000 THEN "$80K-$100K"
  ELSE IF Val(pay) < 15000000 THEN "$100K-$150K"
  ELSE IF Val(pay) < 20000000 THEN "$150K-$200K"
  ELSE "$200K+"

\* process_data.py: categorize_tenure (years in tenths)
categorize_tenure(years) ==
  IF IsNaN(years) THEN "Unknown"
  ELSE IF Val(years) < 10 THEN "< 1 year"
  ELSE IF Val(years) < 50 THEN "1-5 years"
  ELSE IF Val(years) < 100 THEN "5-10 years"
  ELSE IF Val(years) < 200 THEN "10-20 years"
  ELSE IF Val(years) < 300 THEN "20-30 years"
  ELSE "30+ years"

band_order ==
  << "Under $50K", "$50K-$75K", "$75K-$100K", "$100K-$125K", "$125K-$150K",
     "$150K-$200K", "$200K+", "Redacted" >>

age_order ==
  << "LESS THAN 20", "20-24", "25-29", "30-34", "35-39", "40-44", "45-49",
     "50-54", "55-59", "60-64", "65 OR MORE" >>

\* lambda x: order.index(x) if x in order else 99  (list.index is 0-based)
OrderRank(order, x) ==
  IF x \in Range(order)
  THEN (CHOOSE i \in DOMAIN order : order[i] = x) - 1
  ELSE Unranked


\* ------------------------------------------------------------- input rows
CatCols ==
  { "agency", "agency_code", "duty_station_state",
    "duty_station_state_abbreviation", "age_bracket", "education_level",
    "appointment_type", "stem_occupation", "supervisory_status",
    "occupational_group", "occupational_series" }

\* The categorical profiles input rows are drawn from ("" is an empty field).
Profiles ==
  { [ agency |-> "AGENCY A", agency_code |-> "AA",
      duty_station_state |-> "VIRGINIA",
      duty_station_state_abbreviation |-> "VA",
      age_bracket |-> "25-29", education_level |-> "BACHELORS",
      appointment_type |-> "PERMANENT",
      stem_occupation |-> "STEM OCCUPATIONS",
      supervisory_status |-> "SUPERVISOR",
      occupational_group |-> "ENGINEERING",
      occupational_series |-> "GENERAL ENGINEERING",
      length_of_service_years |-> Num(5), grade |-> <<"1", "2">> ],
    [ agency |-> "AGENCY B", agency_code |-> "BB",
      duty_station_state |-> "REDACTED",
      duty_station_state_abbreviation |-> "REDACTED",
      age_bracket |-> "20-24", education_level |-> "HIGH SCHOOL",
      appointment_type |-> "TEMPORARY",
      stem_occupation |-> "ALL OTHER OCCUPATIONS",
      supervisory_status |-> "NON-SUPERVISOR",
      occupational_group |-> "ADMIN",
      occupational_series |-> "CLERK",
      length_of_service_years |-> Num(120), grade |-> <<"E", "S">> ],
    [ agency |-> "AGENCY A", agency_code |-> "",
      duty_station_state |-> "",
      duty_station_state_abbreviation |-> "",
      age_bracket |-> "UNSPECIFIED", education_level |-> "",
      appointment_type |-> "PERMANENT",
      stem_occupation |-> "",
      supervisory_status |-> "",
      occupational_group |-> "ENGINEERING",
      occupational_series |-> "",
      length_of_service_years |-> NaN, grade |-> <<>> ],
    [ agency |-> "AGENCY B", agency_code |-> "BB",
      duty_station_state |-> "MARYLAND",
      duty_station_state_abbreviation |-> "MD",
      age_bracket |-> "LESS THAN 20", education_level |-> "BACHELORS",
      appointment_type |-> "TEMPORARY",
      stem_occupation |-> "STEM OCCUPATIONS",
      supervisory_status |-> "SUPERVISOR",
      occupational_group |-> "ADMIN",
      occupational_series |-> "CLERK",
      length_of_service_years |-> Num(305), grade |-> <<"0", "9">> ] }

ScenarioProfile == CHOOSE p \in Profiles : p.agency_code = "AA"

Counts == {k * CountUnit : k \in 0..MaxCountUnits}

\* raw pay fields of the rows of a general input
PayPool ==
  { <<"5", "0", "0", "0", "0">>, <<"7", "0", "0", "0", "0">>, REDACTED }

\* raw pay fields on and one cent below each threshold of the two scripts
BoundaryPays ==
  { <<"3", "9", "9", "9", "9", ".", "9", "9">>, <<"4", "0", "0", "0", "0">>,
    <<"4", "9", "9", "9", "9", ".", "9", "9">>, <<"5", "0", "0", "0", "0", ".", "0", "0">>,
    <<"5", "9", "9", "9", "9", ".", "9", "9">>, <<"6", "0", "0", "0", "0">>,
    <<"7", "4", "9", "9", "9", ".", "9", "9">>, <<"7", "5", "0", "0", "0">>,
    <<"7", "9", "9", "9", "9", ".", "9", "9">>, <<"8", "0", "0", "0", "0">>,
    <<"9", "9", "9", "9", "9", ".", "9", "9">>, <<"1", "0", "0", "0", "0", "0">>,
    <<"1", "2", "4", "9", "9", "9", ".", "9", "9">>, <<"1", "2", "5", "0", "0", "0">>,
    <<"1", "4", "9", "9", "9", "9", ".", "9", "9">>, <<"1", "5", "0", "0", "0", "0">>,
    <<"1", "9", "9", "9", "9", "9", ".", "9", "9">>, <<"2", "0", "0", "0", "0", "0">>,
    <<"r", "e", "d", "a", "c", "t", "e", "d">>, REDACTED }

PayChars == {"5", "0", ".", "-", "N", "A"}

\* every text over PayChars of length at most MaxLen
ShortTexts == UNION {[1..n -> PayChars] : n \in 0..MaxLen}

GradePool == {<<"1", "2">>, <<"E", "S">>, <<>>}

MkRow(p, c, pay, g) ==
  [ agency |-> p.agency, agency_code |-> p.agency_code,
    duty_station_state |-> p.duty_station_state,
    duty_station_state_abbreviation |-> p.duty_station_state_abbreviation,
    age_bracket |-> p.age_bracket, education_level |-> p.education_level,
    appointment_type |-> p.appointment_type,
    stem_occupation |-> p.stem_occupation,
    supervisory_status |-> p.supervisory_status,
    occupational_group |-> p.occupational_group,
    occupational_series |-> p.occupational_series,
    length_of_service_years |-> p.length_of_service_years,
    grade |-> g, count |-> c, annualized_adjusted_basic_pay |-> pay,
    snapshot_yyyymm |-> 202511 ]

RowPool == {MkRow(p, c, pay, p.grade) : p \in Profiles, c \in Counts, pay \in PayPool}

ScenarioRows ==
  {MkRow(ScenarioProfile, c, pay, ScenarioProfile.grade) : c \in Counts, pay \in PayPool}

\* one row whose pay and grade fields range over many texts
ProbeRows ==
  {MkRow(ScenarioProfile, CountUnit, pay, g) :
     pay \in BoundaryPays \cup ShortTexts, g \in GradePool}

\* the input files: general files of at most MaxRows rows, files of MaxRows + 1
\* rows of one agency, and one-row files probing the text fields
InputFiles ==
  UNION {[1..n -> RowPool] : n \in 0..MaxRows}
    \cup [1..(MaxRows + 1) -> ScenarioRows]
    \cup [1..1 -> ProbeRows]

\* ---------------------------------------------------------- pd.read_csv
\* texts read_csv takes for a missing value (of pandas' default list, those
\* that can be written over the characters of the inputs)
NaTexts == {<<>>, <<"N", "A">>}

LoadCat(v) == IF v = "" THEN NA ELSE v
LoadText(t) == IF t \in NaTexts THEN <<NA>> ELSE t

\* one parsed row of pd.read_csv(RAW_DATA_PATH, sep='|', dtype=dtype_map)
LoadRow(r) ==
  [c \in DOMAIN r |->
     IF c \in CatCols THEN LoadCat(r[c])
     ELSE IF c \in {"annualized_adjusted_basic_pay", "grade"} THEN LoadText(r[c])
     ELSE r[c]]

ReadCsv(file) == [i \in DOMAIN file |-> LoadRow(file[i])]

\* a row with more columns: r, extended by the record x
Extend(r, x) == [c \in DOMAIN r \cup DOMAIN x |-> IF c \in DOMAIN x THEN x[c] ELSE r[c]]

\* create_dashboard_data.py, "Clean data"
CleanDashboardRow(r) ==
  Extend(r, [ pay_numeric |-> ToNumeric(r.annualized_adjusted_basic_pay),
              grade_numeric |-> ToNumeric(r.grade) ])

\* process_data.py, "[2/8] Cleaning data"
CleanProcessRow(r) ==
  LET pay == ToNumeric(r.annualized_adjusted_basic_pay)
  IN Extend(r, [ pay_numeric |-> pay,
                 is_redacted |-> IsRedacted(r.annualized_adjusted_basic_pay),
                 grade_numeric |-> ToNumeric(r.grade),
                 tenure_category |-> categorize_tenure(r.length_of_service_years),
                 pay_band |-> categorize_pay(pay) ])

\* df['pay_band'] = df['pay_numeric'].apply(pay_band)
AddPayBand(frame) ==
  [i \in DOMAIN frame |-> Extend(frame[i], [pay_band |-> pay_band(frame[i].pay_numeric)])]

\* ------------------------------------------------------------ statistics
RECURSIVE ArgsortAsc(_, _)
\* a stable ascending argsort of the integers vals at the positions idx
\* (numpy sorts a short array by insertion, which is stable)
ArgsortAsc(vals, idx) ==
  IF idx = {} THEN <<>>
  ELSE LET m == CHOOSE i \in idx :
                  \A j \in idx : vals[i] < vals[j] \/ (vals[i] = vals[j] /\ i <= j)
       IN <<m>> \o ArgsortAsc(vals, idx \ {m})

RECURSIVE ArgsortDesc(_, _)
\* nargsort(ascending=False): reverse, stable argsort, reverse again, so that
\* equal values keep their order
ArgsortDesc(vals, idx) ==
  IF idx = {} THEN <<>>
  ELSE LET m == CHOOSE i \in idx :
                  \A j \in idx : vals[i] > vals[j] \/ (vals[i] = vals[j] /\ i <= j)
       IN <<m>> \o ArgsortDesc(vals, idx \ {m})

Permute(rows, perm) == [k \in DOMAIN perm |-> rows[perm[k]]]

\* the non-missing values of column col over the rows at the positions idx
Present(frame, col, idx) ==
  LET have == {i \in idx : ~IsNaN(frame[i][col])}
  IN [k \in 1..Cardinality(have) |-> Val(SelectSeqIdx(frame, have)[k][col])]

\* mean, skipping missing values, then .round(2); unit is the number of
\* hundredths in one unit of the column
Mean(frame, col, idx, unit) ==
  LET v == Present(frame, col, idx)
  IN IF v = <<>> THEN NaN ELSE Num(RoundHalfEven(unit * SumSeq(v), Len(v)))

\* median, skipping missing values, then .round(2)
Median(frame, col, idx, unit) ==
  LET v == Present(frame, col, idx)
      o == Permute(v, ArgsortAsc(v, DOMAIN v))
      n == Len(v)
  IN IF n = 0 THEN NaN
     ELSE IF n % 2 = 1 THEN Num(unit * o[(n + 1) \div 2])
     ELSE Num(RoundHalfEven(unit * (o[n \div 2] + o[n \div 2 + 1]), 2))

\* a slip: 'count': 'count' (the number of rows) instead of 'count': 'sum'
CountRows(frame, idx) == Cardinality(idx)

CountSum(frame, idx) == SumSeq([k \in 1..Cardinality(idx) |-> SelectSeqIdx(frame, idx)[k].count])

\* one aggregate of the .agg({...}) dictionaries
Stat(name, frame, idx) ==
  CASE name = "employees" -> CountSum(frame, idx)
    [] name = "avg_pay" -> Mean(frame, "pay_numeric", idx, 1)
    [] name = "median_pay" -> Median(frame, "pay_numeric", idx, 1)
    [] name = "avg_tenure" -> Mean(frame, "length_of_service_years", idx, 10)
    [] name = "median_tenure" -> Median(frame, "length_of_service_years", idx, 10)
    [] name = "avg_grade" -> Mean(frame, "grade_numeric", idx, 1)
    [] name = "redacted" -> Cardinality({i \in idx : frame[i].is_redacted})

\* --------------------------------------------------------------- groupby
KeyOf(r, keys) == [j \in DOMAIN keys |-> r[keys[j]]]

\* dropna=True: a row with a null in a key column belongs to no group
Keyed(frame, keys) == {i \in DOMAIN frame : \A j \in DOMAIN keys : frame[i][keys[j]] # NA}

\* the categories of a categorical column: its non-null values
Categories(frame, col) == {frame[i][col] : i \in DOMAIN frame} \ {NA}

\* observed=True: the key combinations of the rows;
\* observed=False: the product of the key columns' categories
GroupKeys(frame, keys, observed) ==
  IF observed
  THEN {KeyOf(frame[i], keys) : i \in Keyed(frame, keys)}
  ELSE {k \in [DOMAIN keys -> UNION {Categories(frame, keys[j]) : j \in DOMAIN keys}] :
          \A j \in DOMAIN keys : k[j] \in Categories(frame, keys[j])}

RECURSIVE SortKeys(_)
\* sort=True: the group keys in ascending order
SortKeys(ks) ==
  IF ks = {} THEN <<>>
  ELSE LET m == CHOOSE a \in ks : \A b \in ks : a = b \/ KeyLess(a, b)
       IN <<m>> \o SortKeys(ks \ {m})

\* df.groupby(keys, observed=observed).agg(...).round(2): one row per group,
\* holding the group's key and the aggregates named in cols
GroupBy(frame, keys, observed, cols) ==
  LET ks == SortKeys(GroupKeys(frame, keys, observed))
      members(g) == {i \in Keyed(frame, keys) : KeyOf(frame[i], keys) = g}
  IN [k \in DOMAIN ks |->
        [c \in {"key"} \cup cols |->
           IF c = "key" THEN ks[k] ELSE Stat(c, frame, members(ks[k]))]]

\* table[table['employees'] > 0]
PositiveRows(table) == SelectSeq(table, LAMBDA r : r.employees > 0)

\* a slip: ascending=False left out
SortByEmployeesAsc(table) ==
  Permute(table, ArgsortAsc([k \in DOMAIN table |-> table[k].employees], DOMAIN table))

\* table.sort_values('employees', ascending=False)
SortByEmployeesDesc(table) ==
  Permute(table, ArgsortDesc([k \in DOMAIN table |-> table[k].employees], DOMAIN table))

\* table['order'] = ...index(x) if x in order else 99; sort_values('order')
SortByOrder(table, order) ==
  Permute(table, ArgsortAsc([k \in DOMAIN table |-> OrderRank(order, table[k].key[1])],
                            DOMAIN table))

\* edu_data.sort_values('avg_pay', ascending=False): missing means go last
SortByAvgPayDesc(table) ==
  LET have == {k \in DOMAIN table : ~IsNaN(table[k].avg_pay)}
      vals == [k \in DOMAIN table |-> IF k \in have THEN Val(table[k].avg_pay) ELSE 0]
  IN Permute(table, ArgsortDesc(vals, have)
                      \o SelectSeqIdx([k \in DOMAIN table |-> k], DOMAIN table \ have))

\* agency_data.head(50)
df_head(table) ==
  SubSeq(table, 1, IF Len(table) < HeadLimit THEN Len(table) ELSE HeadLimit)

\* ------------------------------------------------------------------ state
VARIABLES
  script,          \* which script runs: "dashboard" or "process"
  observedDefault, \* the installed pandas' default for groupby(observed=...)
  rawExists,       \* RAW_DATA_PATH names a file
  rawFile,         \* that file's rows
  outDir,          \* the output directory exists
  files,           \* the output files: name -> [exists, text]
  pc,              \* the script's position
  df,              \* the data frame
  tables,          \* the aggregate tables made so far: name -> rows
  overall,         \* the overall-statistics record, <<>> until made
  exitCode,        \* the process's exit status, NaN while it runs
  diagnostic,      \* the error message shown to the operator, "" if none
  run,             \* how many times the script was started
  firstOut         \* the output files as the first run left them

vars ==
  << script, observedDefault, rawExists, rawFile, outDir, files, pc, df, tables,
     overall, exitCode, diagnostic, run, firstOut >>

DashboardTables ==
  { "agencies", "allAgencies", "states", "payDistribution", "education",
    "appointments", "ageBrackets", "stem", "supervisory" }

ProcessTables ==
  { "agency", "state", "occupation", "demographics", "pay_distribution",
    "appointment" }

TableNames == DashboardTables \cup ProcessTables

FileNames ==
  { "data.js", "agency_summary.csv", "state_summary.csv",
    "occupation_summary.csv", "demographics_summary.csv",
    "pay_distribution.csv", "appointment_summary.csv", "overall_stats.json" }

NoFile == [exists |-> FALSE, text |-> <<>>]
StaleFile == [exists |-> TRUE, text |-> << [header |-> <<"stale">>] >>]

\* no aggregate table is bound yet
NoTables == [t \in {} |-> <<>>]

\* a slip: open(path, 'a'), which keeps what the file held
OpenForAppending(old) == old

\* open(path, 'w'): the text the file holds once opened for writing
OpenForWriting(old) == <<>>

\* table.to_csv(path, index=False): a header line, then one line per row
CsvText(header, table) ==
  << [header |-> header] >> \o [k \in DOMAIN table |-> [row |-> table[k]]]

ToCsv(old, header, table) ==
  [exists |-> TRUE, text |-> OpenForWriting(old.text) \o CsvText(header, table)]

\* json.dump(obj, f) into a file opened with 'w'
DumpJson(old, obj) ==
  [exists |-> TRUE, text |-> OpenForWriting(old.text) \o << [json |-> obj] >>]

\* the three writes into data.js
WriteDataJs(old, data) ==
  [ exists |-> TRUE,
    text |-> OpenForWriting(old.text)
               \o << [text |-> "const DASHBOARD_DATA = "], [json |-> data],
                     [text |-> ";"] >> ]

Init ==
  /\ script \in {"dashboard", "process"}
  /\ observedDefault \in BOOLEAN
  /\ rawExists \in BOOLEAN
  /\ rawFile \in InputFiles
  /\ ~rawExists => rawFile = <<>>
  /\ \E prior \in {"nodir", "empty", "stale"} :
       /\ outDir = (prior # "nodir")
       /\ files = [f \in FileNames |-> IF prior = "stale" THEN StaleFile ELSE NoFile]
  /\ pc = "start"
  /\ df = <<>>
  /\ tables = NoTables
  /\ overall = <<>>
  /\ exitCode = NaN
  /\ diagnostic = ""
  /\ run = 1
  /\ firstOut = <<>>

\* a slip: sys.exit() without a status, which exits with 0
AbortWithoutStatus(msg) ==
  /\ pc' = "failed"
  /\ exitCode' = Num(0)
  /\ diagnostic' = msg

\* the interpreter ends on an uncaught exception or sys.exit(1)
Abort(msg) ==
  /\ pc' = "failed"
  /\ exitCode' = Num(ExitFailure)
  /\ diagnostic' = msg

Goto(next) ==
  /\ pc' = next
  /\ UNCHANGED <<exitCode, diagnostic>>

\* the script runs off its last line: exit status 0
Finish ==
  /\ pc' = "done"
  /\ exitCode' = Num(0)
  /\ UNCHANGED diagnostic

Env == <<script, observedDefault, rawExists, rawFile, run, firstOut>>

\* the key columns of each table's groupby
TableKeys(t) ==
  CASE t \in {"agencies", "allAgencies"} -> <<"agency">>
    [] t = "states" -> <<"duty_station_state", "duty_station_state_abbreviation">>
    [] t = "payDistribution" -> <<"pay_band">>
    [] t = "education" -> <<"education_level">>
    [] t = "appointments" -> <<"appointment_type">>
    [] t = "ageBrackets" -> <<"age_bracket">>
    [] t = "stem" -> <<"stem_occupation">>
    [] t = "supervisory" -> <<"supervisory_status">>
    [] t = "agency" -> <<"agency", "agency_code">>
    [] t = "state" -> <<"duty_station_state", "duty_station_state_abbreviation">>
    [] t = "occupation" -> <<"occupational_group", "occupational_series", "stem_occupation">>
    [] t = "demographics" -> <<"age_bracket", "education_level", "tenure_category">>
    [] t = "pay_distribution" -> <<"pay_band", "agency">>
    [] t = "appointment" -> <<"appointment_type", "agency">>

\* ------------------------------------------- create_dashboard_data.py
agency_data(frame) ==
  SortByEmployeesDesc(PositiveRows(
    GroupBy(frame, TableKeys("allAgencies"), TRUE,
            {"employees", "avg_pay", "median_pay", "avg_tenure", "avg_grade"})))

\* state_data[state_data['duty_station_state'] != 'REDACTED']
DropRedactedState(table) == SelectSeq(table, LAMBDA r : r.key[1] # "REDACTED")

state_data(frame) ==
  DropRedactedState(SortByEmployeesDesc(PositiveRows(
    GroupBy(frame, TableKeys("states"), TRUE,
            {"employees", "avg_pay", "median_pay", "avg_tenure"}))))

pay_dist(frame) ==
  SortByOrder(GroupBy(AddPayBand(frame), TableKeys("payDistribution"), TRUE, {"employees"}), band_order)

edu_data(frame) ==
  SortByAvgPayDesc(PositiveRows(
    GroupBy(frame, TableKeys("education"), TRUE, {"employees", "avg_pay"})))

appt_data(frame) ==
  SortByEmployeesDesc(PositiveRows(
    GroupBy(frame, TableKeys("appointments"), TRUE, {"employees", "avg_pay", "avg_tenure"})))

age_data(frame) ==
  SortByOrder(PositiveRows(
    GroupBy(frame, TableKeys("ageBrackets"), TRUE, {"employees", "avg_pay", "avg_tenure"})),
    age_order)

stem_data(frame) ==
  PositiveRows(
    GroupBy(frame, TableKeys("stem"), TRUE, {"employees", "avg_pay", "avg_tenure"}))

super_data(frame) ==
  SortByEmployeesDesc(PositiveRows(
    GroupBy(frame, TableKeys("supervisory"), TRUE, {"employees", "avg_pay"})))

\* round(float(mean of the column), digits): the result in units of
\* 10^-digits; scale is the number of the column's units in one result unit
RoundedMean(frame, col, scale) ==
  LET v == Present(frame, col, DOMAIN frame)
  IN IF v = <<>> THEN NaN ELSE Num(RoundHalfEven(SumSeq(v), scale * Len(v)))

RoundedMedian(frame, col, scale) ==
  LET m == Median(frame, col, DOMAIN frame, 2)
  IN IF IsNaN(m) THEN NaN ELSE Num(RoundHalfEven(Val(m), 2 * scale))

TotalCount(frame) == CountSum(frame, DOMAIN frame)

\* the "overall" dictionary of create_dashboard_data.py
DashboardOverall(frame, agencies, states) ==
  LET total == TotalCount(frame)
      stem == CountSum(frame, {i \in DOMAIN frame :
                                 frame[i].stem_occupation = "STEM OCCUPATIONS"})
  IN [ total_employees |-> total,
       total_agencies |-> Cardinality({agencies[k].key : k \in DOMAIN agencies}),
       total_states |-> Len(states),
       avg_salary |-> RoundedMean(frame, "pay_numeric", 100),
       median_salary |-> RoundedMedian(frame, "pay_numeric", 100),
       avg_tenure |-> RoundedMean(frame, "length_of_service_years", 1),
       pct_stem |-> IF total = 0 THEN NaN ELSE Num(RoundHalfEven(1000 * stem, total)),
       snapshot |-> "November 2025" ]

\* "Loading data...": pd.read_csv raises FileNotFoundError on a missing file
DashboardLoad ==
  /\ script = "dashboard"
  /\ pc = "start"
  /\ IF rawExists
     THEN /\ df' = ReadCsv(rawFile)
          /\ Goto("clean")
     ELSE /\ Abort("FileNotFoundError")
          /\ UNCHANGED df
  /\ UNCHANGED <<Env, outDir, files, tables, overall>>

DashboardClean ==
  /\ script = "dashboard"
  /\ pc = "clean"
  /\ df' = [i \in DOMAIN df |-> CleanDashboardRow(df[i])]
  /\ Goto("summaries")
  /\ UNCHANGED <<Env, outDir, files, tables, overall>>

\* the eight summaries, agency to supervisory
DashboardSummaries ==
  /\ script = "dashboard"
  /\ pc = "summaries"
  /\ df' = AddPayBand(df)
  /\ tables' = [t \in DashboardTables |->
       CASE t = "allAgencies" -> agency_data(df)
         [] t = "agencies" -> df_head(agency_data(df))
         [] t = "states" -> state_data(df)
         [] t = "payDistribution" -> pay_dist(df)
         [] t = "education" -> edu_data(df)
         [] t = "appointments" -> appt_data(df)
         [] t = "ageBrackets" -> age_data(df)
         [] t = "stem" -> stem_data(df)
         [] t = "supervisory" -> super_data(df)]
  /\ Goto("overall")
  /\ UNCHANGED <<Env, outDir, files, overall>>

DashboardOverallStep ==
  /\ script = "dashboard"
  /\ pc = "overall"
  /\ overall' = DashboardOverall(df, tables["allAgencies"], tables["states"])
  /\ Goto("write")
  /\ UNCHANGED <<Env, outDir, files, df, tables>>

\* "Writing data file...": open() raises when the dashboard directory is absent
DashboardWrite ==
  /\ script = "dashboard"
  /\ pc = "write"
  /\ IF outDir
     THEN /\ files' = [files EXCEPT !["data.js"] =
                 WriteDataJs(@, [t \in DashboardTables \cup {"overall"} |->
                                  IF t = "overall" THEN overall ELSE tables[t]])]
          /\ Finish
     ELSE /\ Abort("FileNotFoundError")
          /\ UNCHANGED files
  /\ UNCHANGED <<Env, outDir, df, tables, overall>>

\* --------------------------------------------------------- process_data.py
agency_export(frame, observed) ==
  GroupBy(frame, TableKeys("agency"), observed,
          {"employees", "avg_pay", "median_pay", "avg_tenure", "median_tenure",
           "avg_grade", "redacted"})

state_export(frame, observed) ==
  GroupBy(frame, TableKeys("state"), observed,
          {"employees", "avg_pay", "median_pay", "avg_tenure"})

occupation_export(frame, observed) ==
  GroupBy(frame, TableKeys("occupation"), observed,
          {"employees", "avg_pay", "median_pay", "avg_tenure", "avg_grade"})

demographics_export(frame, observed) ==
  GroupBy(frame, TableKeys("demographics"), observed,
          {"employees", "avg_pay"})

pay_distribution(frame, observed) ==
  GroupBy(frame, TableKeys("pay_distribution"), observed, {"employees"})

appointment_export(frame, observed) ==
  GroupBy(frame, TableKeys("appointment"), observed,
          {"employees", "avg_pay", "avg_tenure"})

\* series.nunique(): the number of distinct non-null values
NUnique(frame, col) == Cardinality(Categories(frame, col))

\* the overall_stats dictionary of process_data.py (frame is not empty)
ProcessOverall(frame) ==
  [ total_employees |-> TotalCount(frame),
    total_agencies |-> NUnique(frame, "agency"),
    total_states |-> NUnique(frame, "duty_station_state"),
    avg_salary |-> Mean(frame, "pay_numeric", DOMAIN frame, 1),
    median_salary |-> Median(frame, "pay_numeric", DOMAIN frame, 1),
    avg_tenure |-> Mean(frame, "length_of_service_years", DOMAIN frame, 10),
    pct_redacted |->
      Num(RoundHalfEven(10000 * Cardinality({i \in DOMAIN frame : frame[i].is_redacted}),
                        Len(frame))),
    snapshot_date |-> frame[1].snapshot_yyyymm ]

\* PROCESSED_DATA_PATH.mkdir(...), the banner, and the check of RAW_DATA_PATH
ProcessCheckInput ==
  /\ script = "process"
  /\ pc = "start"
  /\ outDir' = TRUE
  /\ IF rawExists
     THEN Goto("load")
     ELSE Abort("ERROR: Raw data file not found")
  /\ UNCHANGED <<Env, files, df, tables, overall>>

ProcessLoad ==
  /\ script = "process"
  /\ pc = "load"
  /\ df' = ReadCsv(rawFile)
  /\ Goto("clean")
  /\ UNCHANGED <<Env, outDir, files, tables, overall>>

ProcessClean ==
  /\ script = "process"
  /\ pc = "clean"
  /\ df' = [i \in DOMAIN df |-> CleanProcessRow(df[i])]
  /\ Goto("agency")
  /\ UNCHANGED <<Env, outDir, files, tables, overall>>

\* one "[k/8] Exporting ..." step: make the table and write its CSV file
Export(table, rows, file, header, next) ==
  /\ tables' = (table :> rows) @@ tables
  /\ files' = [files EXCEPT ![file] = ToCsv(@, header, rows)]
  /\ Goto(next)
  /\ UNCHANGED <<Env, outDir, df, overall>>

ProcessAgency ==
  /\ script = "process"
  /\ pc = "agency"
  /\ Export("agency", agency_export(df, observedDefault), "agency_summary.csv",
            << "agency", "agency_code", "count_sum", "pay_numeric_mean",
               "pay_numeric_median", "pay_numeric_std",
               "length_of_service_years_mean", "length_of_service_years_median",
               "grade_numeric_mean", "is_redacted_sum" >>, "state")

ProcessState ==
  /\ script = "process"
  /\ pc = "state"
  /\ Export("state", state_export(df, observedDefault), "state_summary.csv",
            << "duty_station_state", "duty_station_state_abbreviation", "count_sum",
               "pay_numeric_mean", "pay_numeric_median",
               "length_of_service_years_mean" >>, "occupation")

ProcessOccupation ==
  /\ script = "process"
  /\ pc = "occupation"
  /\ Export("occupation", occupation_export(df, observedDefault),
            "occupation_summary.csv",
            << "occupational_group", "occupational_series", "stem_occupation",
               "count_sum", "pay_numeric_mean", "pay_numeric_median",
               "length_of_service_years_mean", "grade_numeric_mean" >>, "demographics")

ProcessDemographics ==
  /\ script = "process"
  /\ pc = "demographics"
  /\ Export("demographics", demographics_export(df, observedDefault),
            "demographics_summary.csv",
            << "age_bracket", "education_level", "tenure_category", "employee_count",
               "avg_pay" >>, "pay")

\* "[7/8] Exporting pay distribution and appointment data..."
ProcessPayAppointment ==
  /\ script = "process"
  /\ pc = "pay"
  /\ tables' = ("pay_distribution" :> pay_distribution(df, observedDefault))
                 @@ ("appointment" :> appointment_export(df, observedDefault)) @@ tables
  /\ files' = [files EXCEPT
       !["pay_distribution.csv"] =
         ToCsv(@, <<"pay_band", "agency", "count">>, pay_distribution(df, observedDefault)),
       !["appointment_summary.csv"] =
         ToCsv(@, <<"appointment_type", "agency", "employee_count", "avg_pay", "avg_tenure">>,
               appointment_export(df, observedDefault))]
  /\ Goto("overall")
  /\ UNCHANGED <<Env, outDir, df, overall>>

\* "[8/8] Exporting overall statistics...": df['snapshot_yyyymm'].iloc[0] raises
\* IndexError on a frame without rows
ProcessOverallStep ==
  /\ script = "process"
  /\ pc = "overall"
  /\ IF df = <<>>
     THEN /\ Abort("IndexError")
          /\ UNCHANGED <<overall, files>>
     ELSE /\ overall' = ProcessOverall(df)
          /\ files' = [files EXCEPT !["overall_stats.json"] = DumpJson(@, ProcessOverall(df))]
          /\ Finish
  /\ UNCHANGED <<Env, outDir, df, tables>>

\* the operator starts the script again on the same input file
Rerun ==
  /\ pc \in {"done", "failed"}
  /\ run < MaxRuns
  /\ run' = run + 1
  /\ firstOut' = IF run = 1 THEN <<files>> ELSE firstOut
  /\ pc' = "start"
  /\ df' = <<>>
  /\ tables' = NoTables
  /\ overall' = <<>>
  /\ exitCode' = NaN
  /\ diagnostic' = ""
  /\ UNCHANGED <<script, observedDefault, rawExists, rawFile, outDir, files>>

Next ==
  \/ DashboardLoad
  \/ DashboardClean
  \/ DashboardSummaries
  \/ DashboardOverallStep
  \/ DashboardWrite
  \/ ProcessCheckInput
  \/ ProcessLoad
  \/ ProcessClean
  \/ ProcessAgency
  \/ ProcessState
  \/ ProcessOccupation
  \/ ProcessDemographics
  \/ ProcessPayAppointment
  \/ ProcessOverallStep
  \/ Rerun

Spec == Init /\ [][Next]_vars

\* the runs on the one-row files that probe the pay and grade texts
InitProbe == Init /\ rawFile \in [1..1 -> ProbeRows] \cup {<<>>}
SpecProbe == InitProbe /\ [][Next]_vars

\* ================================================================ claims
TableTotal(table) == SumSeq([k \in DOMAIN table |-> table[k].employees])

\* the sum of count over the rows of the frame whose key columns are non-null
\* and that satisfy Keep
SourceCountWhere(frame, keys, Keep(_)) ==
  SumSeq([i \in DOMAIN frame |->
            IF (\A j \in DOMAIN keys : frame[i][keys[j]] # NA) /\ Keep(frame[i])
            THEN frame[i].count ELSE 0])

SourceCount(frame, keys) == SourceCountWhere(frame, keys, LAMBDA r : TRUE)

\* C1: no row of an emitted aggregate table has an employee count <= 0.
C1_NoRowWithoutEmployees ==
  \A t \in DOMAIN tables : \A k \in DOMAIN tables[t] : tables[t][k].employees > 0

\* C2 as claimed: every emitted table's employee counts sum to the count of
\* the source rows with non-null grouping keys.
C2_TotalsPreserved ==
  \A t \in DOMAIN tables : TableTotal(tables[t]) = SourceCount(df, TableKeys(t))

\* C2 as amended: the same, except that the embedded-mode states table sums
\* to the count of the keyed rows whose state is not "REDACTED", and that
\* the top-50 agencies table is bound to the total only while there are at
\* most 50 agencies.
C2_TotalsPreservedButFiltered ==
  \A t \in DOMAIN tables :
    IF t = "states"
    THEN TableTotal(tables[t]) =
           SourceCountWhere(df, TableKeys(t), LAMBDA r : r.duty_station_state # "REDACTED")
    ELSE IF t = "agencies"
    THEN Len(tables["allAgencies"]) <= HeadLimit
           => TableTotal(tables[t]) = SourceCount(df, TableKeys(t))
    ELSE TableTotal(tables[t]) = SourceCount(df, TableKeys(t))

\* C2 witness: the embedded-mode states table is made from a file holding a
\* state with employees and a "REDACTED" state with employees.
C2_Witness ==
  /\ script = "dashboard"
  /\ "states" \in DOMAIN tables
  /\ Len(tables["states"]) >= 1
  /\ \E i \in DOMAIN df : df[i].duty_station_state = "REDACTED" /\ df[i].count > 0
  /\ TableTotal(tables["payDistribution"]) > TableTotal(tables["states"])

\* C3: every row of an emitted table has a key combination that occurs in a
\* source row.
C3_ObservedCombinationsOnly ==
  \A t \in DOMAIN tables : \A k \in DOMAIN tables[t] :
    \E i \in DOMAIN df : KeyOf(df[i], TableKeys(t)) = tables[t][k].key

NonIncreasing(table) ==
  \A j, k \in DOMAIN table : j < k => table[j].employees >= table[k].employees

\* the rows follow the order list, the categories absent from it last
InDomainOrder(table, order) ==
  \A j, k \in DOMAIN table :
    j < k =>
      \/ table[k].key[1] \notin Range(order)
      \/ /\ table[j].key[1] \in Range(order)
         /\ \E a, b \in DOMAIN order :
              a <= b /\ order[a] = table[j].key[1] /\ order[b] = table[k].key[1]

AscendingKeys(table) ==
  \A j, k \in DOMAIN table : j < k => KeyLess(table[j].key, table[k].key)

NumericBands(which) ==
  IF which = "dashboard"
  THEN << "Under $50K", "$50K-$75K", "$75K-$100K", "$100K-$125K", "$125K-$150K",
          "$150K-$200K", "$200K+" >>
  ELSE << "< $40K", "$40K-$60K", "$60K-$80K", "$80K-$100K", "$100K-$150K",
          "$150K-$200K", "$200K+" >>

BandThresholds(which) ==
  IF which = "dashboard"
  THEN <<5000000, 7500000, 10000000, 12500000, 15000000, 20000000>>
  ELSE <<4000000, 6000000, 8000000, 10000000, 15000000, 20000000>>

MissingBand(which) == IF which = "dashboard" THEN "Redacted" ELSE "Unknown/Redacted"

InBand(k, v, thresholds) ==
  /\ k > 1 => thresholds[k - 1] <= v
  /\ k <= Len(thresholds) => v < thresholds[k]

Banded(r) == "pay_band" \in DOMAIN r
Cleaned(r) == "pay_numeric" \in DOMAIN r

\* C5: every pay value gets exactly one band of its script's set; the numeric
\* bands are the half-open ranges between the thresholds, without gap or
\* overlap, and a missing value gets the script's missing bucket.
C5_PayBandsPartition ==
  \A i \in DOMAIN df :
    Banded(df[i]) =>
      LET p == df[i].pay_numeric
          b == df[i].pay_band
          names == NumericBands(script)
          fits == {k \in DOMAIN names : InBand(k, Val(p), BandThresholds(script))}
      IN IF IsNaN(p) THEN b = MissingBand(script)
         ELSE /\ Cardinality(fits) = 1
              /\ \E k \in fits : names[k] = b
              /\ b # MissingBand(script)

\* C5 witness: a pay of 49999.99 was banded "Under $50K" by pay_band.
C5_Witness ==
  /\ script = "dashboard"
  /\ \E i \in DOMAIN df :
       /\ Banded(df[i])
       /\ rawFile[i].annualized_adjusted_basic_pay
            = <<"4", "9", "9", "9", "9", ".", "9", "9">>
       /\ df[i].pay_numeric = Num(4999999)
       /\ df[i].pay_band = "Under $50K"

\* numeric texts and the numbers (in hundredths) they denote
NumericOracle ==
  { << <<"5", "0", "0", "0", "0">>, 5000000 >>,
    << <<"7", "0", "0", "0", "0">>, 7000000 >>,
    << <<"4", "9", "9", "9", "9", ".", "9", "9">>, 4999999 >>,
    << <<"5", "0", "0", "0", "0", ".", "0", "0">>, 5000000 >>,
    << <<"3", "9", "9", "9", "9", ".", "9", "9">>, 3999999 >>,
    << <<"1", "2", "4", "9", "9", "9", ".", "9", "9">>, 12499999 >>,
    << <<"2", "0", "0", "0", "0", "0">>, 20000000 >>,
    << <<"5">>, 500 >>, << <<"0">>, 0 >>, << <<"5", "0">>, 5000 >>,
    << <<"0", "5">>, 500 >>, << <<"5", "5">>, 5500 >>, << <<"0", "0">>, 0 >>,
    << <<"5", ".">>, 500 >>, << <<".", "5">>, 50 >>, << <<"0", ".">>, 0 >>,
    << <<".", "0">>, 0 >>, << <<"-", "5">>, -500 >>, << <<"-", "0">>, 0 >>,
    << <<"5", ".", "5">>, 550 >>, << <<"-", ".", "5">>, -50 >>,
    << <<"0", ".", "5">>, 50 >>, << <<"-", "5", "0">>, -5000 >>,
    << <<".", "0", "5">>, 5 >>, << <<"5", "0", "5">>, 50500 >> }

\* C6: a raw pay of "REDACTED" gives a missing pay_numeric and a true
\* is_redacted; a numeric text gives a false is_redacted and its number.
C6_PayParsedOrRedacted ==
  \A i \in DOMAIN df :
    Cleaned(df[i]) =>
      LET raw == rawFile[i].annualized_adjusted_basic_pay
      IN /\ raw = REDACTED
              => /\ IsNaN(df[i].pay_numeric)
                 /\ script = "process" => df[i].is_redacted
         /\ \A o \in NumericOracle :
              raw = o[1]
                => /\ df[i].pay_numeric = Num(o[2])
                   /\ script = "process" => ~df[i].is_redacted

\* C6 witness: process_data.py has cleaned a row whose pay is "REDACTED".
C6_Witness ==
  /\ script = "process"
  /\ \E i \in DOMAIN df :
       /\ Cleaned(df[i])
       /\ rawFile[i].annualized_adjusted_basic_pay = REDACTED
       /\ df[i].is_redacted

\* the rows of the frame whose agency is a
AgencyRows(frame, a) == {i \in DOMAIN frame : frame[i].agency = a}

\* avg is the sum of the values vals over their number, rounded to a hundredth
IsRoundedMean(avg, vals) ==
  IF vals = <<>> THEN IsNaN(avg)
  ELSE /\ ~IsNaN(avg)
       /\ 2 * (Val(avg) * Len(vals) - SumSeq(vals)) <= Len(vals)
       /\ 2 * (SumSeq(vals) - Val(avg) * Len(vals)) <= Len(vals)

\* C7: in the agency aggregate of either script every agency with employees
\* has exactly one row, whose employees is the sum of count over all of the
\* agency's rows and whose avg_pay is the mean of the pay of those of them
\* that have one, each weighted once.
C7_OneRowPerAgency ==
  \A t \in DOMAIN tables \cap {"allAgencies", "agency"} :
    \A a \in Categories(df, "agency") :
      LET rows == AgencyRows(df, a)
          total == SumSeq([k \in 1..Cardinality(rows) |-> SelectSeqIdx(df, rows)[k].count])
          hits == {k \in DOMAIN tables[t] : tables[t][k].key[1] = a}
      IN total > 0 =>
           /\ Cardinality(hits) = 1
           /\ \A k \in hits :
                /\ tables[t][k].employees = total
                /\ IsRoundedMean(tables[t][k].avg_pay, Present(df, "pay_numeric", rows))

\* the same statement of the embedded-mode agency table alone
AgencyOnceInDashboard == script = "dashboard" => C7_OneRowPerAgency

\* the scenario of the specification: counts 10, 20, 0 with pays 50000, 70000
\* and a redacted one give AGENCY A once, with 30 employees and 60000.00
ScenarioReached ==
  /\ script = "dashboard"
  /\ "allAgencies" \in DOMAIN tables
  /\ Len(rawFile) = 3
  /\ rawFile[1].count = 10 /\ rawFile[1].annualized_adjusted_basic_pay = <<"5", "0", "0", "0", "0">>
  /\ rawFile[2].count = 20 /\ rawFile[2].annualized_adjusted_basic_pay = <<"7", "0", "0", "0", "0">>
  /\ rawFile[3].count = 0 /\ rawFile[3].annualized_adjusted_basic_pay = REDACTED
  /\ Len(tables["allAgencies"]) = 1
  /\ tables["allAgencies"][1].employees = 30
  /\ tables["allAgencies"][1].avg_pay = Num(6000000)

\* the output files hold nothing a run wrote
Unwritten == \A f \in FileNames : files[f] \in {NoFile, StaleFile}

\* C8: with the input file absent a run ends in failure with a message and a
\* nonzero exit status before it loads, derives or aggregates anything, and
\* writes no output file.
C8_MissingInputFailsAtOnce ==
  ~rawExists =>
    /\ pc \in {"start", "failed"}
    /\ df = <<>> /\ DOMAIN tables = {} /\ overall = <<>>
    /\ Unwritten
    /\ firstOut # <<>> => firstOut[1] = files
    /\ pc = "failed" => /\ ~IsNaN(exitCode) /\ Val(exitCode) # 0
                        /\ diagnostic # ""

\* C8 witness: process_data.py has failed on an absent input file, over a
\* directory of stale output files.
C8_Witness ==
  /\ ~rawExists
  /\ script = "process"
  /\ pc = "failed"
  /\ files["agency_summary.csv"] = StaleFile

\* a text no number can be read from: empty, or holding a character that is
\* no digit, point or sign, or a lone point or sign
Unparsable(t) ==
  \/ t = <<>>
  \/ \E i \in DOMAIN t : t[i] \notin Digits \cup {".", "-", "+"}
  \/ t \in {<<".">>, <<"-">>, <<"+">>}

\* a run has aborted for a reason other than an unparsable field: the input
\* file is absent or has no rows, or the dashboard directory is absent
AbortedForAnotherReason ==
  \/ ~rawExists
  \/ rawFile = <<>>
  \/ script = "dashboard" /\ ~outDir

\* C9 as claimed: an unparsable pay or grade never aborts the run (a run that
\* failed did so for another reason), gives a missing number, and a missing
\* pay is put in the "Unknown/Redacted" band.
C9_MissingPayIsUnknownRedacted ==
  /\ pc = "failed" => AbortedForAnotherReason
  /\ \A i \in DOMAIN df :
       /\ Cleaned(df[i]) /\ Unparsable(rawFile[i].annualized_adjusted_basic_pay)
            => IsNaN(df[i].pay_numeric)
       /\ Cleaned(df[i]) /\ Unparsable(rawFile[i].grade) => IsNaN(df[i].grade_numeric)
       /\ Banded(df[i]) /\ IsNaN(df[i].pay_numeric) => df[i].pay_band = "Unknown/Redacted"

\* C9 as amended: the same, the band of a missing pay being the script's own
\* missing bucket: "Unknown/Redacted" in process_data.py, "Redacted" in
\* create_dashboard_data.py.
C9_MissingPayIsMissingBucket ==
  /\ pc = "failed" => AbortedForAnotherReason
  /\ \A i \in DOMAIN df :
       /\ Cleaned(df[i]) /\ Unparsable(rawFile[i].annualized_adjusted_basic_pay)
            => IsNaN(df[i].pay_numeric)
       /\ Cleaned(df[i]) /\ Unparsable(rawFile[i].grade) => IsNaN(df[i].grade_numeric)
       /\ Banded(df[i]) /\ IsNaN(df[i].pay_numeric)
            => df[i].pay_band = IF script = "process" THEN "Unknown/Redacted" ELSE "Redacted"

\* C9 witness: process_data.py has run to its end on a row whose pay is
\* "REDACTED" and whose grade is "ES", and has exported the missing bucket.
C9_Witness ==
  /\ script = "process"
  /\ pc = "done"
  /\ Len(rawFile) = 1
  /\ rawFile[1].annualized_adjusted_basic_pay = REDACTED
  /\ rawFile[1].grade = <<"E", "S">>
  /\ df[1].pay_band = "Unknown/Redacted"
  /\ \E k \in DOMAIN tables["pay_distribution"] :
       tables["pay_distribution"][k].key[1] = "Unknown/Redacted"
  /\ files["overall_stats.json"].exists

\* the files a script writes
Written(which) == IF which = "dashboard" THEN {"data.js"} ELSE FileNames \ {"data.js"}

\* C10: a second run on the same input file leaves every output file as the
\* first run left it, and a file a run has written holds nothing of what it
\* held before the run.
C10_RerunLeavesSameFiles ==
  /\ run >= 2 /\ pc \in {"done", "failed"} => files = firstOut[1]
  /\ pc = "done" =>
       \A f \in Written(script) :
         /\ files[f].exists
         /\ \A k \in DOMAIN files[f].text : files[f].text[k] \notin Range(StaleFile.text)

\* C10 witness: a second run of process_data.py has ended over files that
\* were stale before the first run, on an input file with rows.
C10_Witness ==
  /\ script = "process"
  /\ run = 2
  /\ pc = "done"
  /\ rawFile # <<>>
  /\ files["data.js"] = StaleFile
  /\ Len(files["agency_summary.csv"].text) >= 2

=============================================================================
